---- MODULE Spec2Model ----
(***************************************************************************)
(* Producer-consumer pipeline of producer-consumer/cpp/main.cpp.           *)
(*                                                                         *)
(* One producer thread pushes DATA_LENGTH entries {position, number} into  *)
(* a deque guarded by buffer.mutex / buffer.cond_var, NUM_CONSUMERS        *)
(* consumer threads unload entries from the front, compute                 *)
(* fibonacci(number) outside the lock and store it in results[position].   *)
(* main spawns the threads, joins them and asserts the Fibonacci           *)
(* recurrence on results.                                                  *)
(*                                                                         *)
(* Every statement that touches shared state is one action.  A thread's    *)
(* position in its function is pcC[c] / pcP / pcM.  sync_printf only       *)
(* serialises output; with log_steps = FALSE a call is folded into the     *)
(* step that precedes it, with log_steps = TRUE its lock of the logging    *)
(* mutex and its unlock are steps of their own (LogSpec).                  *)
(***************************************************************************)
EXTENDS Integers, Sequences, FiniteSets, TLC

(***************************************************************************)
(* Bounds.  The program runs 8 consumers on the 15 keys 30..44; the model  *)
(* runs the same code on a scaled-down instance.                           *)
(***************************************************************************)
MaxConsumers == 2
NumItems == 2
KeyStart == 3

(***************************************************************************)
(* CONSTANTS section of main.cpp (lines 18-24), scaled by the bounds.      *)
(***************************************************************************)
NUM_CONSUMERS == MaxConsumers
DATA_START == KeyStart
DATA_END == DATA_START + NumItems
DATA_LENGTH == DATA_END - DATA_START

Consumers == 1..NUM_CONSUMERS
Positions == 0..(DATA_LENGTH - 1)

\* Thread identities: the producer thread, and "nobody" for an unlocked mutex.
ProducerThread == 0
Free == -1

\* `int results[DATA_LENGTH];` is not initialised: a slot that was never
\* written holds an indeterminate value.
Indeterminate == -1

\* Buffer::BufferEntry
BufferEntry(position, number) == [position |-> position, number |-> number]
\* A consumer that holds no entry (`be` is not in scope).
NoEntry == [position |-> -1, number |-> -1]

(***************************************************************************)
(* HELPER FUNCTIONS                                                        *)
(***************************************************************************)
\* The range of `int`, the type of fibonacci's argument and result and of
\* the result slots.
INT_MAX == 2147483647
INT_MIN == -INT_MAX - 1

\* a + b on ints leaves the range (signed overflow: undefined behaviour).
IntAddOverflows(a, b) ==
    \/ a > 0 /\ b > 0 /\ a > INT_MAX - b
    \/ a < 0 /\ b < 0 /\ a < INT_MIN - b

\* a + b on ints.  In range it is the sum; out of range it is the sum
\* wrapped around modulo 2^32, which is what a build without overflow
\* trapping yields.  That the wrapped value is only one possible outcome is
\* the business of the callers (FibonacciOutcomes, CheckUndefined).
IntAdd(a, b) ==
    IF a > 0 /\ b > 0 /\ a > INT_MAX - b
      THEN (((a - INT_MAX) - 1) + b) - INT_MAX - 1
    ELSE IF a < 0 /\ b < 0 /\ a < INT_MIN - b
      THEN (((a + INT_MAX) + 1) + b) + INT_MAX + 1
    ELSE a + b

\* What a call of fibonacci yields when `assert (n >= 1)` (line 33) fails:
\* no value, the process is aborted.
AssertionFailed == "abort"

RECURSIVE fibonacci(_)
fibonacci(n) ==
    IF ~(n >= 1) THEN AssertionFailed
    ELSE IF n <= 2 THEN 1
    ELSE IntAdd(fibonacci(n - 1), fibonacci(n - 2))

\* The recurrence of fibonacci with each value computed once:
\* fk = fibonacci(k), fk1 = fibonacci(k - 1), for 2 <= k <= n.
RECURSIVE FibonacciFrom(_, _, _, _)
FibonacciFrom(k, n, fk, fk1) ==
    IF k >= n THEN fk
    ELSE IF IntAddOverflows(fk, fk1)
      THEN FibonacciFrom(k + 1, n, IntAdd(fk, fk1), fk)
    ELSE FibonacciFrom(k + 1, n, fk + fk1, fk)

\* Variant of fibonacci_int: the base case is `n <= 1`, with fibonacci(0) = 1.
fibonacci_int_BaseOne(n) ==
    IF ~(n >= 0) THEN AssertionFailed ELSE FibonacciFrom(1, n, 1, 1)

\* fibonacci (lines 32-35) by that recurrence: the same value as the
\* recursion, obtained in n steps, so that keys like 30..44 can be computed.
fibonacci_int(n) ==
    IF ~(n >= 1) THEN AssertionFailed ELSE FibonacciFrom(2, n, 1, 1)

\* Some addition made by fibonacci(k), k <= n, overflows.
RECURSIVE FibonacciFromOverflows(_, _, _, _)
FibonacciFromOverflows(k, n, fk, fk1) ==
    IF k >= n THEN FALSE
    ELSE \/ IntAddOverflows(fk, fk1)
         \/ FibonacciFromOverflows(k + 1, n, IntAdd(fk, fk1), fk)

\* fibonacci(n) runs into a signed overflow: its result is undefined.
FibonacciUndefined(n) == n >= 1 /\ FibonacciFromOverflows(2, n, 1, 1)

\* The values a call fibonacci(n), n >= 1, can return: the Fibonacci number,
\* or, after an overflow, the wrapped sum or any other int (Indeterminate).
FibonacciOutcomes(n) ==
    IF FibonacciUndefined(n) THEN {fibonacci_int(n), Indeterminate}
    ELSE {fibonacci_int(n)}

\* Variant of random_permutation: every index is drawn independently, so a
\* number may come out twice.
random_permutation_WithRepeats(length) ==
    [1..length -> 0..(length - 1)]

\* std::random_shuffle of <0, 1, ..., length-1>: any arrangement of the
\* vector's elements can come out.
random_permutation(length) ==
    { v \in [1..length -> 0..(length - 1)] :
        \A i, j \in 1..length : i # j => v[i] # v[j] }

VARIABLES
    permutation,             \* main: the vector handed to the producer
    data,                    \* buffer.data
    production_is_finished,  \* buffer.production_is_finished
    mutex,                   \* owner of buffer.mutex, or Free
    waiting,                 \* consumers blocked in buffer.cond_var.wait
    results,                 \* main: int results[DATA_LENGTH]
    pcC, do_run, be, fib_result,   \* consumer: position and locals
    pcP, it,                 \* producer: position and loop iterator
    pcM, spawned, joined,    \* main: position, threads started / joined
    pushed, popped, writes, closes, \* history of pushes, unloads, slot writes, closes
    log_mutex, log_call,     \* sync_printf: owner of its mutex m; who is inside a call
    log_steps                \* whether a sync_printf call is taken step by step

vars == << permutation, data, production_is_finished, mutex, waiting, results,
           pcC, do_run, be, fib_result, pcP, it, pcM, spawned, joined,
           pushed, popped, writes, closes, log_mutex, log_call, log_steps >>

bufferVars == << data, production_is_finished, mutex, waiting >>
consumerVars == << pcC, do_run, be, fib_result >>
producerVars == << pcP, it >>
mainVars == << pcM, spawned, joined >>
historyVars == << pushed, popped, writes, closes >>
logVars == << log_mutex, log_call, log_steps >>

\* The threads that call sync_printf.
Threads == Consumers \cup {ProducerThread}

(***************************************************************************)
(* sync_printf (lines 59-79).  The call locks the function's static mutex  *)
(* m, prints, and unlocks; it touches nothing else.  With log_steps false  *)
(* the whole call is part of the step that makes it; with log_steps true   *)
(* the caller goes through L_Acquire and L_Release before its next step.   *)
(***************************************************************************)
\* The thread is not inside a sync_printf call.
LogIdle(t) == log_call[t] = "none"

\* A step that makes no sync_printf call.
NoLog == UNCHANGED logVars

\* A step that ends by calling sync_printf.
SyncPrintf(t) ==
    IF log_steps
      THEN /\ log_call' = [log_call EXCEPT ![t] = "want"]
           /\ UNCHANGED << log_mutex, log_steps >>
      ELSE UNCHANGED logVars

(***************************************************************************)
(* main, up to the first thread start (lines 199-210).                     *)
(***************************************************************************)
StartState ==
    /\ data = << >>
    /\ production_is_finished = FALSE
    /\ mutex = Free
    /\ waiting = {}
    /\ results = [i \in Positions |-> Indeterminate]
    /\ pcC = [c \in Consumers |-> "unstarted"]
    /\ do_run = [c \in Consumers |-> TRUE]
    /\ be = [c \in Consumers |-> NoEntry]
    /\ fib_result = [c \in Consumers |-> 0]
    /\ pcP = "unstarted"
    /\ it = 1
    /\ pcM = "spawn_consumers"
    /\ spawned = 0
    /\ joined = 0
    /\ pushed = << >>
    /\ popped = << >>
    /\ writes = [i \in Positions |-> 0]
    /\ closes = 0
    /\ log_mutex = Free
    /\ log_call = [t \in Threads |-> "none"]

Init ==
    /\ permutation \in random_permutation(DATA_LENGTH)
    /\ log_steps = FALSE
    /\ StartState

(***************************************************************************)
(* CONSUMER (lines 111-155)                                                *)
(***************************************************************************)

\* line 116: while (do_run); line 154 when the loop is left.
C_Loop(c) ==
    /\ pcC[c] = "loop"
    /\ pcC' = [pcC EXCEPT ![c] = IF do_run[c] THEN "lock" ELSE "done"]
    /\ UNCHANGED << permutation, bufferVars, results, do_run, be, fib_result,
                    producerVars, mainVars, historyVars >>
    /\ LogIdle(c)
    /\ IF do_run[c] THEN NoLog ELSE SyncPrintf(c)

\* Variant of C_Lock: the consumer enters without waiting for the mutex.
C_Lock_NoExclusion(c) ==
    /\ pcC[c] = "lock"
    /\ mutex' = c
    /\ pcC' = [pcC EXCEPT ![c] = "check"]
    /\ UNCHANGED << permutation, data, production_is_finished, waiting, results,
                    do_run, be, fib_result, producerVars, mainVars, historyVars >>
    /\ LogIdle(c)
    /\ NoLog

\* line 118: std::unique_lock<std::mutex> lock(buffer.mutex);
C_Lock(c) ==
    /\ pcC[c] = "lock"
    /\ mutex = Free
    /\ mutex' = c
    /\ pcC' = [pcC EXCEPT ![c] = "check"]
    /\ UNCHANGED << permutation, data, production_is_finished, waiting, results,
                    do_run, be, fib_result, producerVars, mainVars, historyVars >>
    /\ LogIdle(c)
    /\ NoLog

\* Variant of C_Check: the negation of the flag is dropped from the wait
\* condition, `while (buffer.data.empty() && buffer.production_is_finished)`.
C_Check_NegationDropped(c) ==
    /\ pcC[c] = "check"
    /\ IF Len(data) = 0 /\ production_is_finished
         THEN /\ mutex' = Free
              /\ waiting' = waiting \cup {c}
              /\ pcC' = [pcC EXCEPT ![c] = "wait"]
         ELSE /\ pcC' = [pcC EXCEPT ![c] = "handle"]
              /\ UNCHANGED << mutex, waiting >>
    /\ UNCHANGED << permutation, data, production_is_finished, results,
                    do_run, be, fib_result, producerVars, mainVars, historyVars >>
    /\ LogIdle(c)
    /\ NoLog

\* lines 121-123: the wait condition; cond_var.wait(lock) releases the mutex
\* and blocks the thread atomically.
C_Check(c) ==
    /\ pcC[c] = "check"
    /\ IF Len(data) = 0 /\ ~production_is_finished
         THEN /\ mutex' = Free
              /\ waiting' = waiting \cup {c}
              /\ pcC' = [pcC EXCEPT ![c] = "wait"]
         ELSE /\ pcC' = [pcC EXCEPT ![c] = "handle"]
              /\ UNCHANGED << mutex, waiting >>
    /\ UNCHANGED << permutation, data, production_is_finished, results,
                    do_run, be, fib_result, producerVars, mainVars, historyVars >>
    /\ LogIdle(c)
    /\ NoLog

\* line 122: a notified thread (removed from `waiting` by the notifier) leaves
\* the blocked state and must reacquire the mutex.
C_Notified(c) ==
    /\ pcC[c] = "wait"
    /\ c \notin waiting
    /\ pcC' = [pcC EXCEPT ![c] = "relock"]
    /\ UNCHANGED << permutation, bufferVars, results, do_run, be, fib_result,
                    producerVars, mainVars, historyVars >>
    /\ LogIdle(c)
    /\ NoLog

\* line 122: "... or a spurious wakeup occurs".
C_SpuriousWakeup(c) ==
    /\ pcC[c] = "wait"
    /\ c \in waiting
    /\ waiting' = waiting \ {c}
    /\ pcC' = [pcC EXCEPT ![c] = "relock"]
    /\ UNCHANGED << permutation, data, production_is_finished, mutex, results,
                    do_run, be, fib_result, producerVars, mainVars, historyVars >>
    /\ LogIdle(c)
    /\ NoLog

\* Variant of C_Relock: `if` instead of `while` around the wait, so the
\* condition is not tested again after a wakeup.
C_Relock_NoRecheck(c) ==
    /\ pcC[c] = "relock"
    /\ mutex = Free
    /\ mutex' = c
    /\ pcC' = [pcC EXCEPT ![c] = "handle"]
    /\ UNCHANGED << permutation, data, production_is_finished, waiting, results,
                    do_run, be, fib_result, producerVars, mainVars, historyVars >>
    /\ LogIdle(c)
    /\ NoLog

\* line 122: wait() returns with the mutex reacquired; line 121 tests again.
C_Relock(c) ==
    /\ pcC[c] = "relock"
    /\ mutex = Free
    /\ mutex' = c
    /\ pcC' = [pcC EXCEPT ![c] = "check"]
    /\ UNCHANGED << permutation, data, production_is_finished, waiting, results,
                    do_run, be, fib_result, producerVars, mainVars, historyVars >>
    /\ LogIdle(c)
    /\ NoLog

\* Variant of C_Handle: front() without pop_front().
C_Handle_NoPop(c) ==
    /\ pcC[c] = "handle"
    /\ IF Len(data) = 0
         THEN /\ do_run' = [do_run EXCEPT ![c] = ~production_is_finished]
              /\ pcC' = [pcC EXCEPT ![c] = "unlock_closed"]
              /\ UNCHANGED << data, be, popped >>
         ELSE /\ be' = [be EXCEPT ![c] = Head(data)]
              /\ data' = data
              /\ popped' = Append(popped, Head(data))
              /\ pcC' = [pcC EXCEPT ![c] = "unlock_item"]
              /\ UNCHANGED do_run
    /\ UNCHANGED << permutation, production_is_finished, mutex, waiting, results,
                    fib_result, producerVars, mainVars, pushed, writes, closes >>
    /\ LogIdle(c)
    /\ NoLog

\* Variant of C_Handle: back() / pop_back() instead of front() / pop_front().
C_Handle_Back(c) ==
    /\ pcC[c] = "handle"
    /\ IF Len(data) = 0
         THEN /\ do_run' = [do_run EXCEPT ![c] = ~production_is_finished]
              /\ pcC' = [pcC EXCEPT ![c] = "unlock_closed"]
              /\ UNCHANGED << data, be, popped >>
         ELSE /\ be' = [be EXCEPT ![c] = data[Len(data)]]
              /\ data' = SubSeq(data, 1, Len(data) - 1)
              /\ popped' = Append(popped, data[Len(data)])
              /\ pcC' = [pcC EXCEPT ![c] = "unlock_item"]
              /\ UNCHANGED do_run
    /\ UNCHANGED << permutation, production_is_finished, mutex, waiting, results,
                    fib_result, producerVars, mainVars, pushed, writes, closes >>
    /\ LogIdle(c)
    /\ NoLog

\* Variant of C_Handle: `do_run = !(buffer.production_is_finished = false)`,
\* an assignment where the flag was to be read.
C_Handle_ClearsFlag(c) ==
    /\ pcC[c] = "handle"
    /\ IF Len(data) = 0
         THEN /\ production_is_finished' = FALSE
              /\ do_run' = [do_run EXCEPT ![c] = TRUE]
              /\ pcC' = [pcC EXCEPT ![c] = "unlock_closed"]
              /\ UNCHANGED << data, be, popped >>
         ELSE /\ be' = [be EXCEPT ![c] = Head(data)]
              /\ data' = Tail(data)
              /\ popped' = Append(popped, Head(data))
              /\ pcC' = [pcC EXCEPT ![c] = "unlock_item"]
              /\ UNCHANGED << do_run, production_is_finished >>
    /\ UNCHANGED << permutation, mutex, waiting, results,
                    fib_result, producerVars, mainVars, pushed, writes, closes >>
    /\ LogIdle(c)
    /\ NoLog

\* Variant of C_Handle: `do_run = buffer.production_is_finished`, the
\* negation is dropped.
C_Handle_KeepsRunning(c) ==
    /\ pcC[c] = "handle"
    /\ IF Len(data) = 0
         THEN /\ do_run' = [do_run EXCEPT ![c] = production_is_finished]
              /\ pcC' = [pcC EXCEPT ![c] = "unlock_closed"]
              /\ UNCHANGED << data, be, popped >>
         ELSE /\ be' = [be EXCEPT ![c] = Head(data)]
              /\ data' = Tail(data)
              /\ popped' = Append(popped, Head(data))
              /\ pcC' = [pcC EXCEPT ![c] = "unlock_item"]
              /\ UNCHANGED do_run
    /\ UNCHANGED << permutation, production_is_finished, mutex, waiting, results,
                    fib_result, producerVars, mainVars, pushed, writes, closes >>
    /\ LogIdle(c)
    /\ NoLog

\* lines 133-139: the closed outcome, or unload the front entry.
C_Handle(c) ==
    /\ pcC[c] = "handle"
    /\ IF Len(data) = 0
         THEN /\ do_run' = [do_run EXCEPT ![c] = ~production_is_finished]
              /\ pcC' = [pcC EXCEPT ![c] = "unlock_closed"]
              /\ UNCHANGED << data, be, popped >>
         ELSE /\ be' = [be EXCEPT ![c] = Head(data)]
              /\ data' = Tail(data)
              /\ popped' = Append(popped, Head(data))
              /\ pcC' = [pcC EXCEPT ![c] = "unlock_item"]
              /\ UNCHANGED do_run
    /\ UNCHANGED << permutation, production_is_finished, mutex, waiting, results,
                    fib_result, producerVars, mainVars, pushed, writes, closes >>
    /\ LogIdle(c)
    /\ NoLog

\* Variant of C_Unlock: after an entry was unloaded the lock is kept (no
\* lock.unlock() at line 142), as with a lock_guard spanning the loop body.
C_Unlock_KeepsMutex(c) ==
    /\ pcC[c] \in {"unlock_closed", "unlock_item"}
    /\ mutex' = IF pcC[c] = "unlock_item" THEN mutex ELSE Free
    /\ pcC' = [pcC EXCEPT ![c] = IF pcC[c] = "unlock_item" THEN "compute" ELSE "loop"]
    /\ UNCHANGED << permutation, data, production_is_finished, waiting, results,
                    do_run, be, fib_result, producerVars, mainVars, historyVars >>
    /\ LogIdle(c)
    /\ IF pcC[c] = "unlock_item" THEN SyncPrintf(c) ELSE NoLog

\* lines 135 and 142: lock.unlock();
C_Unlock(c) ==
    /\ pcC[c] \in {"unlock_closed", "unlock_item"}
    /\ mutex' = Free
    /\ pcC' = [pcC EXCEPT ![c] = IF pcC[c] = "unlock_item" THEN "compute" ELSE "loop"]
    /\ UNCHANGED << permutation, data, production_is_finished, waiting, results,
                    do_run, be, fib_result, producerVars, mainVars, historyVars >>
    /\ LogIdle(c)
    /\ IF pcC[c] = "unlock_item" THEN SyncPrintf(c) ELSE NoLog

\* lines 144-149: int fib_result = fibonacci(be.number);  When the
\* assertion of line 33 fails, abort() ends the process: no thread takes a
\* further step.
C_Compute(c) ==
    /\ pcC[c] = "compute"
    /\ LogIdle(c)
    /\ IF ~(be[c].number >= 1)
         THEN /\ pcC' = [x \in DOMAIN pcC |-> "aborted"]
              /\ pcP' = "aborted"
              /\ pcM' = "aborted"
              /\ log_call' = [t \in DOMAIN log_call |-> "none"]
              /\ UNCHANGED << fib_result, it, log_mutex, log_steps >>
         ELSE /\ \E r \in FibonacciOutcomes(be[c].number) :
                    fib_result' = [fib_result EXCEPT ![c] = r]
              /\ pcC' = [pcC EXCEPT ![c] = "write"]
              /\ UNCHANGED << pcP, it, pcM >>
              /\ SyncPrintf(c)
    /\ UNCHANGED << permutation, bufferVars, results, do_run, be,
                    spawned, joined, historyVars >>

\* Variant of C_Write: the computed value is dropped (no store at line 150)
\* and the consumer goes on with its loop.
C_Write_DropsResult(c) ==
    /\ pcC[c] = "write"
    /\ be' = [be EXCEPT ![c] = NoEntry]
    /\ fib_result' = [fib_result EXCEPT ![c] = 0]
    /\ pcC' = [pcC EXCEPT ![c] = "loop"]
    /\ UNCHANGED << permutation, bufferVars, results, writes, do_run,
                    producerVars, mainVars, pushed, popped, closes >>
    /\ LogIdle(c)
    /\ NoLog

\* line 150: results[be.position] = fib_result; then be and fib_result go
\* out of scope.
C_Write(c) ==
    /\ pcC[c] = "write"
    /\ results' = [results EXCEPT ![be[c].position] = fib_result[c]]
    /\ writes' = [writes EXCEPT ![be[c].position] = @ + 1]
    /\ be' = [be EXCEPT ![c] = NoEntry]
    /\ fib_result' = [fib_result EXCEPT ![c] = 0]
    /\ pcC' = [pcC EXCEPT ![c] = "loop"]
    /\ UNCHANGED << permutation, bufferVars, do_run,
                    producerVars, mainVars, pushed, popped, closes >>
    /\ LogIdle(c)
    /\ NoLog

(***************************************************************************)
(* PRODUCER (lines 159-196)                                                *)
(***************************************************************************)

\* Variant of P_Loop: the loop stops one element before the end.
P_Loop_StopsEarly ==
    /\ pcP = "loop"
    /\ pcP' = IF it # Len(permutation) THEN "lock" ELSE "finish_lock"
    /\ UNCHANGED << permutation, bufferVars, results, consumerVars, it,
                    mainVars, historyVars >>
    /\ LogIdle(ProducerThread)
    /\ IF pcP' = "finish_lock" THEN SyncPrintf(ProducerThread) ELSE NoLog

\* lines 160-164: the loop test and the optional sleep.
P_Loop ==
    /\ pcP = "loop"
    /\ pcP' = IF it # Len(permutation) + 1 THEN "lock" ELSE "finish_lock"
    /\ UNCHANGED << permutation, bufferVars, results, consumerVars, it,
                    mainVars, historyVars >>
    /\ LogIdle(ProducerThread)
    /\ IF pcP' = "finish_lock" THEN SyncPrintf(ProducerThread) ELSE NoLog

\* lines 170 and 189: std::lock_guard<std::mutex> lock(buffer.mutex);
P_Lock ==
    /\ pcP \in {"lock", "finish_lock"}
    /\ mutex = Free
    /\ mutex' = ProducerThread
    /\ pcP' = IF pcP = "lock" THEN "push" ELSE "set_finished"
    /\ UNCHANGED << permutation, data, production_is_finished, waiting, results,
                    consumerVars, it, mainVars, historyVars >>
    /\ LogIdle(ProducerThread)
    /\ NoLog

\* Variant of P_Push: the position is the loop index, not the element *it.
P_Push_IndexAsPosition ==
    /\ pcP = "push"
    /\ data' = Append(data, BufferEntry(it - 1, DATA_START + permutation[it]))
    /\ pushed' = Append(pushed, BufferEntry(it - 1, DATA_START + permutation[it]))
    /\ pcP' = "unlock"
    /\ UNCHANGED << permutation, production_is_finished, mutex, waiting, results,
                    consumerVars, it, mainVars, popped, writes, closes >>
    /\ LogIdle(ProducerThread)
    /\ SyncPrintf(ProducerThread)

\* Variant of P_Push: a push with the flag set is refused and the queue is
\* left alone.
P_Push_RejectsWhenClosed ==
    /\ pcP = "push"
    /\ IF production_is_finished
         THEN /\ pcP' = "closed_queue_error"
              /\ UNCHANGED << data, pushed >>
         ELSE /\ data' = Append(data, BufferEntry(permutation[it], DATA_START + permutation[it]))
              /\ pushed' = Append(pushed, BufferEntry(permutation[it], DATA_START + permutation[it]))
              /\ pcP' = "unlock"
    /\ UNCHANGED << permutation, production_is_finished, mutex, waiting, results,
                    consumerVars, it, mainVars, popped, writes, closes >>
    /\ LogIdle(ProducerThread)
    /\ SyncPrintf(ProducerThread)

\* lines 172-174: buffer.data.push_back(BufferEntry{*it, DATA_START + *it});
P_Push ==
    /\ pcP = "push"
    /\ data' = Append(data, BufferEntry(permutation[it], DATA_START + permutation[it]))
    /\ pushed' = Append(pushed, BufferEntry(permutation[it], DATA_START + permutation[it]))
    /\ pcP' = "unlock"
    /\ UNCHANGED << permutation, production_is_finished, mutex, waiting, results,
                    consumerVars, it, mainVars, popped, writes, closes >>
    /\ LogIdle(ProducerThread)
    /\ SyncPrintf(ProducerThread)

\* lines 175 and 191: the lock_guard goes out of scope.
P_Unlock ==
    /\ pcP \in {"unlock", "finish_unlock"}
    /\ mutex' = Free
    /\ pcP' = IF pcP = "unlock" THEN "notify_one" ELSE "notify_all"
    /\ UNCHANGED << permutation, data, production_is_finished, waiting, results,
                    consumerVars, it, mainVars, historyVars >>
    /\ LogIdle(ProducerThread)
    /\ NoLog

\* Variant of P_NotifyOne: no notification after a push.
P_NotifyOne_Missing ==
    /\ pcP = "notify_one"
    /\ it' = it + 1
    /\ pcP' = "loop"
    /\ UNCHANGED << permutation, bufferVars, results, consumerVars, mainVars,
                    historyVars >>
    /\ LogIdle(ProducerThread)
    /\ NoLog

\* line 177: buffer.cond_var.notify_one(); then ++it (line 160).
P_NotifyOne ==
    /\ pcP = "notify_one"
    /\ IF waiting = {}
         THEN UNCHANGED waiting
         ELSE \E c \in waiting : waiting' = waiting \ {c}
    /\ it' = it + 1
    /\ pcP' = "loop"
    /\ UNCHANGED << permutation, data, production_is_finished, mutex, results,
                    consumerVars, mainVars, historyVars >>
    /\ LogIdle(ProducerThread)
    /\ NoLog

\* Variant of P_SetFinished: the flag is flipped instead of set.
P_SetFinished_Flips ==
    /\ pcP = "set_finished"
    /\ production_is_finished' = ~production_is_finished
    /\ closes' = closes + 1
    /\ pcP' = "finish_unlock"
    /\ UNCHANGED << permutation, data, mutex, waiting, results,
                    consumerVars, it, mainVars, pushed, popped, writes >>
    /\ LogIdle(ProducerThread)
    /\ NoLog

\* line 190: buffer.production_is_finished = true;
P_SetFinished ==
    /\ pcP = "set_finished"
    /\ production_is_finished' = TRUE
    /\ closes' = closes + 1
    /\ pcP' = "finish_unlock"
    /\ UNCHANGED << permutation, data, mutex, waiting, results,
                    consumerVars, it, mainVars, pushed, popped, writes >>
    /\ LogIdle(ProducerThread)
    /\ NoLog

\* Variant of P_NotifyAll: the notification is left out.
P_NotifyAll_Missing ==
    /\ pcP = "notify_all"
    /\ waiting' = waiting
    /\ pcP' = "done"
    /\ UNCHANGED << permutation, data, production_is_finished, mutex, results,
                    consumerVars, it, mainVars, historyVars >>
    /\ LogIdle(ProducerThread)
    /\ SyncPrintf(ProducerThread)

\* Variant of P_NotifyAll: notify_one() in place of notify_all().
P_NotifyAll_One ==
    /\ pcP = "notify_all"
    /\ IF waiting = {}
         THEN UNCHANGED waiting
         ELSE \E c \in waiting : waiting' = waiting \ {c}
    /\ pcP' = "done"
    /\ UNCHANGED << permutation, data, production_is_finished, mutex, results,
                    consumerVars, it, mainVars, historyVars >>
    /\ LogIdle(ProducerThread)
    /\ SyncPrintf(ProducerThread)

\* lines 193-195: buffer.cond_var.notify_all(); and the thread ends.
P_NotifyAll ==
    /\ pcP = "notify_all"
    /\ waiting' = {}
    /\ pcP' = "done"
    /\ UNCHANGED << permutation, data, production_is_finished, mutex, results,
                    consumerVars, it, mainVars, historyVars >>
    /\ LogIdle(ProducerThread)
    /\ SyncPrintf(ProducerThread)

(***************************************************************************)
(* MAIN (lines 199-237)                                                    *)
(***************************************************************************)

\* lines 213-215: start the consumers, one per iteration.
M_SpawnConsumer ==
    /\ pcM = "spawn_consumers"
    /\ IF spawned < NUM_CONSUMERS
         THEN /\ pcC' = [pcC EXCEPT ![spawned + 1] = "loop"]
              /\ spawned' = spawned + 1
              /\ UNCHANGED pcM
         ELSE /\ pcM' = "spawn_producer"
              /\ UNCHANGED << pcC, spawned >>
    /\ UNCHANGED << permutation, bufferVars, results, do_run, be, fib_result,
                    producerVars, joined, historyVars >>
    /\ IF spawned < NUM_CONSUMERS THEN SyncPrintf(spawned + 1) ELSE NoLog

\* line 219: start the producer thread.
M_SpawnProducer ==
    /\ pcM = "spawn_producer"
    /\ pcP' = "loop"
    /\ pcM' = "join_consumers"
    /\ UNCHANGED << permutation, bufferVars, results, consumerVars, it,
                    spawned, joined, historyVars >>
    /\ NoLog

\* Variant of M_JoinConsumer: the join returns without waiting for the
\* consumer thread to end.
M_JoinConsumer_NoWait ==
    /\ pcM = "join_consumers"
    /\ IF joined < NUM_CONSUMERS
         THEN /\ joined' = joined + 1
              /\ UNCHANGED pcM
         ELSE /\ pcM' = "join_producer"
              /\ UNCHANGED joined
    /\ UNCHANGED << permutation, bufferVars, results, consumerVars,
                    producerVars, spawned, historyVars >>
    /\ NoLog

\* lines 222-224: it->join() returns once that consumer thread has ended.
M_JoinConsumer ==
    /\ pcM = "join_consumers"
    /\ IF joined < NUM_CONSUMERS
         THEN /\ pcC[joined + 1] = "done"
              /\ joined' = joined + 1
              /\ UNCHANGED pcM
         ELSE /\ pcM' = "join_producer"
              /\ UNCHANGED joined
    /\ UNCHANGED << permutation, bufferVars, results, consumerVars,
                    producerVars, spawned, historyVars >>
    /\ joined < NUM_CONSUMERS => LogIdle(joined + 1)
    /\ NoLog

\* line 225: producerThread.join();
M_JoinProducer ==
    /\ pcM = "join_producer"
    /\ pcP = "done"
    /\ pcM' = "check"
    /\ UNCHANGED << permutation, bufferVars, results, consumerVars,
                    producerVars, spawned, joined, historyVars >>
    /\ LogIdle(ProducerThread)
    /\ NoLog

\* lines 229-233: the three assertions, when every slot they read holds a
\* determinate value and no sum overflows.
ResultsOK ==
    /\ results[0] = fibonacci(DATA_START)
    /\ results[1] = fibonacci(DATA_START + 1)
    /\ \A i \in 2..(DATA_LENGTH - 1) :
          IntAdd(results[i - 2], results[i - 1]) = results[i]

\* The check reads a slot that holds an indeterminate value, or adds two
\* slots whose sum overflows: what it yields is undefined.
CheckUndefined ==
    \/ \E i \in Positions : results[i] = Indeterminate
    \/ \E i \in 2..(DATA_LENGTH - 1) :
          IntAddOverflows(results[i - 2], results[i - 1])

\* lines 227-236: check the results.  Reading a slot that was never written
\* reads an indeterminate int, so the assertions may pass or fail.
M_Check ==
    /\ pcM = "check"
    /\ \E ok \in (IF CheckUndefined THEN BOOLEAN ELSE {ResultsOK}) :
          pcM' = IF ok THEN "done" ELSE "abort"
    /\ UNCHANGED << permutation, bufferVars, results, consumerVars,
                    producerVars, spawned, joined, historyVars >>
    /\ NoLog

ConsumerStep(c) ==
    \/ C_Loop(c)
    \/ C_Lock(c)
    \/ C_Check(c)
    \/ C_Notified(c)
    \/ C_Relock(c)
    \/ C_Handle(c)
    \/ C_Unlock(c)
    \/ C_Compute(c)
    \/ C_Write(c)

ProducerStep ==
    \/ P_Loop
    \/ P_Lock
    \/ P_Push
    \/ P_Unlock
    \/ P_NotifyOne
    \/ P_SetFinished
    \/ P_NotifyAll

MainStep ==
    \/ M_SpawnConsumer
    \/ M_SpawnProducer
    \/ M_JoinConsumer
    \/ M_JoinProducer
    \/ M_Check

Next ==
    \/ \E c \in Consumers : ConsumerStep(c)
    \/ \E c \in Consumers : C_SpuriousWakeup(c)
    \/ ProducerStep
    \/ MainStep

Spec == Init /\ [][Next]_vars

(***************************************************************************)
(* Fair scheduling: every thread that can take a step eventually takes it, *)
(* and a thread that asks for the mutex gets it if the mutex keeps         *)
(* becoming free.  Spurious wakeups may happen but are not owed.           *)
(***************************************************************************)
ConsumerRun(c) ==
    \/ C_Loop(c)
    \/ C_Check(c)
    \/ C_Notified(c)
    \/ C_Handle(c)
    \/ C_Unlock(c)
    \/ C_Compute(c)
    \/ C_Write(c)

ConsumerAcquire(c) == C_Lock(c) \/ C_Relock(c)

ProducerRun ==
    \/ P_Loop
    \/ P_Push
    \/ P_Unlock
    \/ P_NotifyOne
    \/ P_SetFinished
    \/ P_NotifyAll

Fairness ==
    /\ \A c \in Consumers : WF_vars(ConsumerRun(c)) /\ SF_vars(ConsumerAcquire(c))
    /\ WF_vars(ProducerRun)
    /\ SF_vars(P_Lock)
    /\ WF_vars(MainStep)

LiveSpec == Spec /\ Fairness

(***************************************************************************)
(* Scenario: the producer never closes.  It pushes its entries and then    *)
(* stops (a crash, or close left out) before line 189.  main stays in its  *)
(* first join.                                                             *)
(***************************************************************************)
P_StopsWithoutClose ==
    /\ pcP = "finish_lock"
    /\ pcP' = "stopped"
    /\ UNCHANGED << permutation, bufferVars, results, consumerVars, it,
                    mainVars, historyVars >>
    /\ LogIdle(ProducerThread)
    /\ NoLog

\* lines 170-175 only: the lock of the push block.
P_LockForPush == pcP = "lock" /\ P_Lock

NoCloseNext ==
    \/ \E c \in Consumers : ConsumerStep(c)
    \/ \E c \in Consumers : C_SpuriousWakeup(c)
    \/ P_Loop
    \/ P_LockForPush
    \/ P_Push
    \/ P_Unlock
    \/ P_NotifyOne
    \/ P_StopsWithoutClose
    \/ M_SpawnConsumer
    \/ M_SpawnProducer

NoCloseSpec == Init /\ [][NoCloseNext]_vars

NoCloseFairness ==
    /\ \A c \in Consumers : WF_vars(ConsumerRun(c)) /\ SF_vars(ConsumerAcquire(c))
    /\ WF_vars(P_Loop \/ P_Push \/ P_Unlock \/ P_NotifyOne \/ P_StopsWithoutClose)
    /\ SF_vars(P_LockForPush)
    /\ WF_vars(M_SpawnConsumer \/ M_SpawnProducer)

NoCloseLiveSpec == NoCloseSpec /\ NoCloseFairness

(***************************************************************************)
(* Scenario: a push after close.  Having closed, the producer runs its     *)
(* push block (lines 166-177) once more, on the last element, and goes on  *)
(* from there.  main is still joining the threads.                         *)
(***************************************************************************)
P_PushesAfterClose ==
    /\ pcP = "done"
    /\ Len(pushed) = DATA_LENGTH
    /\ pcP' = "lock"
    /\ it' = Len(permutation)
    /\ UNCHANGED << permutation, bufferVars, results, consumerVars,
                    mainVars, historyVars >>
    /\ LogIdle(ProducerThread)
    /\ NoLog

PushAfterCloseNext ==
    \/ \E c \in Consumers : ConsumerStep(c)
    \/ \E c \in Consumers : C_SpuriousWakeup(c)
    \/ ProducerStep
    \/ P_PushesAfterClose
    \/ M_SpawnConsumer
    \/ M_SpawnProducer
    \/ M_JoinConsumer

PushAfterCloseSpec == Init /\ [][PushAfterCloseNext]_vars

(***************************************************************************)
(* Scenario: close twice.  After the notify_all of its first close (line   *)
(* 193) the producer runs the close block (lines 183-193) a second time,   *)
(* and ends after the second notify_all.                                   *)
(***************************************************************************)
P_ClosesAgain ==
    /\ pcP = "notify_all"
    /\ closes = 1
    /\ waiting' = {}
    /\ pcP' = "finish_lock"
    /\ UNCHANGED << permutation, data, production_is_finished, mutex, results,
                    consumerVars, it, mainVars, historyVars >>
    /\ LogIdle(ProducerThread)
    /\ NoLog

\* lines 193-195 after the second close.
P_NotifyAllAndEnd == closes = 2 /\ P_NotifyAll

DoubleCloseNext ==
    \/ \E c \in Consumers : ConsumerStep(c)
    \/ \E c \in Consumers : C_SpuriousWakeup(c)
    \/ P_Loop
    \/ P_Lock
    \/ P_Push
    \/ P_Unlock
    \/ P_NotifyOne
    \/ P_SetFinished
    \/ P_ClosesAgain
    \/ P_NotifyAllAndEnd
    \/ MainStep

DoubleCloseSpec == Init /\ [][DoubleCloseNext]_vars

DoubleCloseFairness ==
    /\ \A c \in Consumers : WF_vars(ConsumerRun(c)) /\ SF_vars(ConsumerAcquire(c))
    /\ WF_vars(P_Loop \/ P_Push \/ P_Unlock \/ P_NotifyOne \/ P_SetFinished
                 \/ P_ClosesAgain \/ P_NotifyAllAndEnd)
    /\ SF_vars(P_Lock)
    /\ WF_vars(MainStep)

DoubleCloseLiveSpec == DoubleCloseSpec /\ DoubleCloseFairness

(***************************************************************************)
(* Scenario: an empty run.  producer() is handed an empty vector: its loop *)
(* body never runs and it closes at once.  results still has DATA_LENGTH   *)
(* slots, none of which is written.                                        *)
(***************************************************************************)
EmptyInit ==
    /\ permutation = << >>
    /\ log_steps = FALSE
    /\ StartState

EmptyNext ==
    \/ \E c \in Consumers :
          \/ C_Loop(c)
          \/ C_Lock(c)
          \/ C_Check(c)
          \/ C_Notified(c)
          \/ C_Relock(c)
          \/ C_Handle(c)
          \/ C_Unlock(c)
    \/ \E c \in Consumers : C_SpuriousWakeup(c)
    \/ P_Loop
    \/ P_Lock
    \/ P_SetFinished
    \/ P_Unlock
    \/ P_NotifyAll
    \/ MainStep

EmptySpec == EmptyInit /\ [][EmptyNext]_vars

EmptyLiveSpec == EmptySpec /\ Fairness

(***************************************************************************)
(* Scenario: the calls of sync_printf as steps.  A thread that has made a  *)
(* call (log_call = "want") takes the logging mutex m, prints, releases it *)
(* and only then goes on with the statement after the call.                *)
(***************************************************************************)
LogInit ==
    /\ permutation \in random_permutation(DATA_LENGTH)
    /\ log_steps = TRUE
    /\ StartState

\* Variant of L_Acquire: the lock_guard does not exclude other threads.
L_Acquire_NoExclusion(t) ==
    /\ log_call[t] = "want"
    /\ log_mutex' = t
    /\ log_call' = [log_call EXCEPT ![t] = "in"]
    /\ UNCHANGED << permutation, bufferVars, results, consumerVars,
                    producerVars, mainVars, historyVars, log_steps >>

\* line 73: std::lock_guard<std::mutex> lock(m);
L_Acquire(t) ==
    /\ log_call[t] = "want"
    /\ log_mutex = Free
    /\ log_mutex' = t
    /\ log_call' = [log_call EXCEPT ![t] = "in"]
    /\ UNCHANGED << permutation, bufferVars, results, consumerVars,
                    producerVars, mainVars, historyVars, log_steps >>

\* lines 74-76: the two prints, then the lock_guard goes out of scope.
L_Release(t) ==
    /\ log_call[t] = "in"
    /\ log_mutex' = Free
    /\ log_call' = [log_call EXCEPT ![t] = "none"]
    /\ UNCHANGED << permutation, bufferVars, results, consumerVars,
                    producerVars, mainVars, historyVars, log_steps >>

LogNext ==
    \/ \E c \in Consumers : ConsumerStep(c)
    \/ \E c \in Consumers : C_SpuriousWakeup(c)
    \/ ProducerStep
    \/ MainStep
    \/ \E t \in Threads : L_Acquire(t)
    \/ \E t \in Threads : L_Release(t)

LogSpec == LogInit /\ [][LogNext]_vars

(***************************************************************************)
(* Scenario: the program's own data, the 15 keys DATA_START = 30 ..        *)
(* DATA_END - 1 = 44, pushed in the order the program's                    *)
(* random_permutation yields.  The threads take the steps of the code in   *)
(* any interleaving; only the two statements that name DATA_START or       *)
(* DATA_LENGTH are repeated with the program's values (R_Push, R_Check).   *)
(* The number of consumers is NUM_CONSUMERS as bounded by MaxConsumers.    *)
(***************************************************************************)
REF_DATA_START == 30
REF_DATA_END == 45
REF_DATA_LENGTH == REF_DATA_END - REF_DATA_START

RefPositions == 0..(REF_DATA_LENGTH - 1)

\* random_permutation(DATA_LENGTH) at line 204: main calls it before
\* std::srand (line 208), so std::random_shuffle runs from the default seed
\* and the build yields this order in every run.
RefPermutations ==
    { << 4, 10, 11, 12, 14, 5, 13, 1, 6, 9, 3, 7, 8, 2, 0 >> }

\* main, up to the first thread start (lines 199-210).
RefInit ==
    /\ permutation \in RefPermutations
    /\ log_steps = FALSE
    /\ data = << >>
    /\ production_is_finished = FALSE
    /\ mutex = Free
    /\ waiting = {}
    /\ results = [i \in RefPositions |-> Indeterminate]
    /\ pcC = [c \in Consumers |-> "unstarted"]
    /\ do_run = [c \in Consumers |-> TRUE]
    /\ be = [c \in Consumers |-> NoEntry]
    /\ fib_result = [c \in Consumers |-> 0]
    /\ pcP = "unstarted"
    /\ it = 1
    /\ pcM = "spawn_consumers"
    /\ spawned = 0
    /\ joined = 0
    /\ pushed = << >>
    /\ popped = << >>
    /\ writes = [i \in RefPositions |-> 0]
    /\ closes = 0
    /\ log_mutex = Free
    /\ log_call = [t \in Threads |-> "none"]

\* lines 172-174, as P_Push.
R_Push ==
    /\ pcP = "push"
    /\ data' = Append(data, BufferEntry(permutation[it], REF_DATA_START + permutation[it]))
    /\ pushed' = Append(pushed, BufferEntry(permutation[it], REF_DATA_START + permutation[it]))
    /\ pcP' = "unlock"
    /\ UNCHANGED << permutation, production_is_finished, mutex, waiting, results,
                    consumerVars, it, mainVars, popped, writes, closes >>
    /\ LogIdle(ProducerThread)
    /\ SyncPrintf(ProducerThread)

\* lines 229-233, as ResultsOK.
RefResultsOK ==
    /\ results[0] = fibonacci_int(REF_DATA_START)
    /\ results[1] = fibonacci_int(REF_DATA_START + 1)
    /\ \A i \in 2..(REF_DATA_LENGTH - 1) :
          IntAdd(results[i - 2], results[i - 1]) = results[i]

\* As CheckUndefined.
RefCheckUndefined ==
    \/ \E i \in RefPositions : results[i] = Indeterminate
    \/ \E i \in 2..(REF_DATA_LENGTH - 1) :
          IntAddOverflows(results[i - 2], results[i - 1])

\* lines 227-236, as M_Check.
R_Check ==
    /\ pcM = "check"
    /\ \E ok \in (IF RefCheckUndefined THEN BOOLEAN ELSE {RefResultsOK}) :
          pcM' = IF ok THEN "done" ELSE "abort"
    /\ UNCHANGED << permutation, bufferVars, results, consumerVars,
                    producerVars, spawned, joined, historyVars >>
    /\ NoLog

RefNext ==
    \/ \E c \in Consumers : ConsumerStep(c)
    \/ \E c \in Consumers : C_SpuriousWakeup(c)
    \/ P_Loop
    \/ P_Lock
    \/ R_Push
    \/ P_Unlock
    \/ P_NotifyOne
    \/ P_SetFinished
    \/ P_NotifyAll
    \/ M_SpawnConsumer
    \/ M_SpawnProducer
    \/ M_JoinConsumer
    \/ M_JoinProducer
    \/ R_Check

RefSpec == RefInit /\ [][RefNext]_vars

(***************************************************************************)
(* Vocabulary of the properties.                                           *)
(***************************************************************************)
\* The entries the producer is to push: one for each element of the vector
\* it is handed (line 160), in the vector's order.
AllItems ==
    [i \in DOMAIN permutation |-> BufferEntry(permutation[i], DATA_START + permutation[i])]

Range(s) == { s[i] : i \in DOMAIN s }
Count(s, e) == Cardinality({ i \in DOMAIN s : s[i] = e })

\* Every consumer thread has left its loop and ended.
ConsumersExited == \A c \in Consumers : pcC[c] = "done"

\* The threads that are inside a buffer.mutex critical section.
ConsumerInCS(c) == pcC[c] \in {"check", "handle", "unlock_closed", "unlock_item"}
ProducerInCS == pcP \in {"push", "unlock", "set_finished", "finish_unlock"}
Holders ==
    { c \in Consumers : ConsumerInCS(c) }
        \cup (IF ProducerInCS THEN {ProducerThread} ELSE {})

(***************************************************************************)
(* C1.  No loss, no duplication: every pushed entry is either still in the *)
(* queue or was unloaded exactly once, never both and never twice; once    *)
(* every consumer has exited, exactly DATA_LENGTH unloads have happened    *)
(* and the queue is empty.                                                 *)
(***************************************************************************)
C1_NoLossNoDuplication ==
    /\ \A e \in Range(pushed) \cup Range(popped) \cup Range(data) :
          /\ Count(popped, e) + Count(data, e) = Count(pushed, e)
          /\ Count(popped, e) <= 1
    /\ ConsumersExited =>
          /\ Len(pushed) = DATA_LENGTH
          /\ Len(popped) = DATA_LENGTH
          /\ Len(data) = 0

C1_Witness ==
    /\ ConsumersExited
    /\ Len(popped) = DATA_LENGTH
    /\ Len(data) = 0

(***************************************************************************)
(* C2.  Termination: under fair scheduling every consumer thread           *)
(* eventually ends and main's joins of all consumers return.               *)
(***************************************************************************)
C2_Termination == <>(ConsumersExited /\ joined = NUM_CONSUMERS)

C2_Witness ==
    /\ ConsumersExited
    /\ joined = NUM_CONSUMERS
    /\ pcM = "join_producer"

(***************************************************************************)
(* C3.  Per-slot correctness: the key pushed for position i is            *)
(* DATA_START + i, and once the producer and all consumers have ended,     *)
(* results[i] = fibonacci(DATA_START + i) for every position i, whatever   *)
(* the permutation was.                                                    *)
(***************************************************************************)
C3_PerSlotCorrect ==
    /\ \A e \in Range(pushed) : e.number = DATA_START + e.position
    /\ (ConsumersExited /\ pcP = "done") =>
          \A i \in Positions : results[i] = fibonacci(DATA_START + i)

C3_Witness ==
    /\ ConsumersExited
    /\ pcP = "done"
    /\ permutation[1] # 0
    /\ \A i \in Positions : writes[i] = 1

(***************************************************************************)
(* C4.  Blocking dequeue: a consumer gets past the wait only with a        *)
(* non-empty queue, and then unloads exactly the head entry, or with an    *)
(* empty queue and the finished flag set, and then stops; it never gets    *)
(* past the wait with the queue empty and the flag clear, and never stops  *)
(* while the queue is non-empty.                                           *)
(***************************************************************************)
C4_DequeueStep(c) ==
    (pcC[c] = "handle" /\ pcC'[c] # "handle") =>
        \/ /\ Len(data) > 0
           /\ be'[c] = Head(data)
           /\ data' = Tail(data)
           /\ do_run'[c]
           /\ pcC'[c] = "unlock_item"
        \/ /\ Len(data) = 0
           /\ production_is_finished
           /\ ~do_run'[c]
           /\ data' = data
           /\ pcC'[c] = "unlock_closed"

C4_BlockingDequeue == [][\A c \in Consumers : C4_DequeueStep(c)]_vars

\* A consumer that was woken tests the condition again and finds the queue
\* empty (the entry went to another consumer) with the flag still clear.
C4_Witness ==
    \E c \in Consumers :
        /\ pcC[c] = "check"
        /\ Len(data) = 0
        /\ ~production_is_finished
        /\ Len(popped) >= 1

(***************************************************************************)
(* C5.  Close broadcasts: the flag is set while the producer holds the     *)
(* mutex and before the notification; the notification leaves no consumer  *)
(* blocked; every consumer that is blocked when the flag is set goes on to *)
(* end.                                                                    *)
(***************************************************************************)
C5_CloseBroadcasts ==
    /\ [][(pcP = "set_finished" /\ pcP' # pcP) =>
            (mutex = ProducerThread /\ production_is_finished')]_vars
    /\ [][(pcP = "notify_all" /\ pcP' # pcP) =>
            (production_is_finished /\ waiting' = {})]_vars
    /\ \A c \in Consumers :
          (c \in waiting /\ production_is_finished) ~> (pcC[c] = "done")

\* Both consumers are blocked on the empty queue when the producer is about
\* to notify.
C5_Witness ==
    /\ pcP = "notify_all"
    /\ Cardinality(waiting) >= 2
    /\ Len(data) = 0

(***************************************************************************)
(* C6.  production_is_finished starts false and never goes back from true  *)
(* to false.                                                               *)
(***************************************************************************)
C6_FinishedMonotonic ==
    /\ ~production_is_finished
    /\ [][production_is_finished => production_is_finished']_vars

\* The flag is set and consumers are still at work.
C6_Witness ==
    /\ production_is_finished
    /\ \E c \in Consumers : pcC[c] = "unlock_closed"
    /\ \E c \in Consumers : pcC[c] = "compute"

(***************************************************************************)
(* C7.  Producer protocol: what has been pushed is always a prefix of the  *)
(* permutation's entries in order; the flag is set exactly once and only   *)
(* when all DATA_LENGTH entries have been pushed, and nothing is pushed    *)
(* afterwards.                                                             *)
(***************************************************************************)
C7_ProducerProtocol ==
    /\ Len(pushed) <= DATA_LENGTH
    /\ pushed = SubSeq(AllItems, 1, Len(pushed))
    /\ production_is_finished => Len(pushed) = DATA_LENGTH
    /\ closes = (IF production_is_finished THEN 1 ELSE 0)
    /\ pcP = "done" => closes = 1

C7_Witness ==
    /\ pcP = "done"
    /\ closes = 1
    /\ pushed = AllItems

(***************************************************************************)
(* C8.  FIFO: the entries unloaded so far, in the order of their removal,  *)
(* followed by the queue contents, are exactly the entries pushed so far,  *)
(* in push order.                                                          *)
(***************************************************************************)
C8_Fifo == pushed = popped \o data

\* Results need not land in removal order: the entry unloaded second is
\* written while the one unloaded first is not yet.
C8_Witness ==
    /\ Len(popped) >= 2
    /\ writes[popped[2].position] = 1
    /\ writes[popped[1].position] = 0

(***************************************************************************)
(* C9.  Disjoint writes: the positions of the pushed entries are pairwise  *)
(* distinct, no two consumers hold entries of the same position, and no    *)
(* result slot is written more than once.                                  *)
(***************************************************************************)
C9_DisjointWrites ==
    /\ \A i, j \in DOMAIN pushed : i # j => pushed[i].position # pushed[j].position
    /\ \A c1, c2 \in Consumers :
          (c1 # c2 /\ be[c1] # NoEntry /\ be[c2] # NoEntry) =>
              be[c1].position # be[c2].position
    /\ \A i \in Positions : writes[i] <= 1

\* Two consumers are about to write their slots at the same time, without
\* any lock.
C9_Witness ==
    \E c1, c2 \in Consumers :
        /\ c1 # c2
        /\ pcC[c1] = "write"
        /\ pcC[c2] = "write"
        /\ mutex = Free

(***************************************************************************)
(* C10.  Mutual exclusion: at most one thread is inside a buffer.mutex     *)
(* critical section and it is the owner of the mutex; the queue and the    *)
(* flag are only changed by a step of the owner; between a consumer's wait *)
(* condition test and its unload-or-exit decision no step changes the      *)
(* queue or the flag.                                                      *)
(***************************************************************************)
C10_OneHolder ==
    /\ Cardinality(Holders) <= 1
    /\ \A t \in Holders : mutex = t
    /\ Holders = {} => mutex = Free

C10_StepOfOwner ==
    (data' # data \/ production_is_finished' # production_is_finished) =>
        \/ mutex = ProducerThread /\ pcP' # pcP
        \/ mutex \in Consumers /\ pcC'[mutex] # pcC[mutex]

C10_NoStepInBetween(c) ==
    (pcC[c] \in {"check", "handle"} /\ pcC'[c] = pcC[c]) =>
        (data' = data /\ production_is_finished' = production_is_finished)

C10_MutualExclusion ==
    /\ C10_OneHolder
    /\ [][/\ C10_OneHolder'
          /\ C10_StepOfOwner
          /\ \A c \in Consumers : C10_NoStepInBetween(c)]_vars

\* A consumer is between its test and its decision while the producer and
\* another consumer are waiting for the mutex.
C10_Witness ==
    \E c1, c2 \in Consumers :
        /\ c1 # c2
        /\ pcC[c1] = "handle"
        /\ pcC[c2] \in {"lock", "relock"}
        /\ pcP \in {"lock", "finish_lock"}

(***************************************************************************)
(* C11.  Missing close: when the producer pushes its entries and never     *)
(* sets production_is_finished, no consumer thread ever ends, and from     *)
(* some point on the queue is empty and every consumer stays in the wait   *)
(* loop of lines 121-123 (blocked, or woken spuriously and blocking        *)
(* again).                                                                 *)
(***************************************************************************)
InWaitLoop(c) == pcC[c] \in {"wait", "relock", "check"}

C11_MissingCloseHangs ==
    /\ [](\A c \in Consumers : pcC[c] # "done")
    /\ <>[](Len(data) = 0 /\ \A c \in Consumers : InWaitLoop(c))

\* Everything was pushed and unloaded, the producer is gone, and every
\* consumer is blocked on the condition variable.
C11_Witness ==
    /\ pcP = "stopped"
    /\ ~production_is_finished
    /\ Len(popped) = DATA_LENGTH
    /\ \A c \in Consumers : pcC[c] = "wait" /\ c \in waiting

(***************************************************************************)
(* C12.  Push after close.  As claimed: a push attempted with the flag set *)
(* fails with a ClosedQueueError and leaves the queue unchanged.           *)
(***************************************************************************)
C12_PushAfterCloseRejected ==
    [][(pcP = "push" /\ production_is_finished /\ pcP' # pcP) =>
          (data' = data /\ pcP' = "closed_queue_error")]_vars

(***************************************************************************)
(* C12, as the code has it: the push block has no check of the flag and    *)
(* no error; whatever the flag, it appends the entry to the tail of the    *)
(* queue, leaves the flag alone and goes on to unlock.  The only pushes    *)
(* with the flag set are those made after the DATA_LENGTH pushes of the    *)
(* producer's loop.                                                        *)
(***************************************************************************)
C12_PushAppendsWhateverTheFlag ==
    [][(pcP = "push" /\ pcP' # pcP) =>
          /\ data' = Append(data, BufferEntry(permutation[it], DATA_START + permutation[it]))
          /\ production_is_finished' = production_is_finished
          /\ pcP' = "unlock"
          /\ production_is_finished => Len(pushed) >= DATA_LENGTH]_vars

\* The entry pushed after close is in the queue.
C12_Witness ==
    /\ production_is_finished
    /\ pcP = "unlock"
    /\ Len(pushed) = DATA_LENGTH + 1
    /\ Len(data) >= 1
    /\ data[Len(data)] = pushed[Len(pushed)]

(***************************************************************************)
(* C13.  Idempotent close: the second close finds the flag true and leaves *)
(* it true, and does not touch the queue; a run with two closes ends in    *)
(* the end state of a run with one close (flag true, queue empty, mutex    *)
(* free, nobody waiting, every entry unloaded once, every result slot      *)
(* holding its Fibonacci number); every consumer ends and main's           *)
(* assertions pass.                                                        *)
(***************************************************************************)
\* The end state of a run, but for the positions of the threads and the
\* count of closes.
EndState ==
    /\ production_is_finished
    /\ Len(data) = 0
    /\ mutex = Free
    /\ waiting = {}
    /\ pushed = AllItems
    /\ popped = AllItems
    /\ \A i \in Positions : results[i] = fibonacci(DATA_START + i) /\ writes[i] = 1

C13_SecondCloseStep ==
    (closes = 1 /\ closes' = 2) =>
        /\ production_is_finished
        /\ production_is_finished'
        /\ data' = data

C13_IdempotentClose ==
    /\ [][C13_SecondCloseStep]_vars
    /\ []((ConsumersExited /\ pcP = "done") => (closes = 2 /\ EndState))
    /\ [](pcM # "abort")
    /\ <>(ConsumersExited /\ pcP = "done" /\ pcM = "done")

\* The second close is being made while a consumer that the first close
\* woke has not yet seen the flag.
C13_Witness ==
    /\ closes = 2
    /\ pcP = "finish_unlock"
    /\ \E c \in Consumers : pcC[c] \in {"wait", "relock"}

(***************************************************************************)
(* C14.  Empty run: with an empty vector handed to the producer, no        *)
(* consumer ever unloads or holds an entry and no result slot is written;  *)
(* whenever a consumer gets past the wait it is with the Closed outcome,   *)
(* after which it leaves its loop; and every consumer ends.                *)
(***************************************************************************)
C14_NothingReceived ==
    /\ Len(pushed) = 0
    /\ Len(popped) = 0
    /\ \A c \in Consumers : be[c] = NoEntry /\ pcC[c] \notin {"unlock_item", "compute", "write"}
    /\ \A i \in Positions : writes[i] = 0 /\ results[i] = Indeterminate

C14_ClosedOnFirstAttempt(c) ==
    (pcC[c] = "handle" /\ pcC'[c] # "handle") =>
        /\ production_is_finished
        /\ pcC'[c] = "unlock_closed"
        /\ ~do_run'[c]

C14_EmptyRun ==
    /\ []C14_NothingReceived
    /\ [][\A c \in Consumers : C14_ClosedOnFirstAttempt(c)]_vars
    /\ [](\A c \in Consumers : pcC[c] = "loop" /\ ~do_run[c] => production_is_finished)
    /\ <>ConsumersExited

\* One consumer has exited on the Closed outcome without blocking, the other
\* was blocked and has just been woken by the close.
C14_Witness ==
    /\ Len(permutation) = 0
    /\ pcP = "done"
    /\ \E c1, c2 \in Consumers :
          /\ pcC[c1] = "done"
          /\ pcC[c2] = "relock"

(***************************************************************************)
(* C15.  Reference scenario: with the keys 30..44 pushed in the program's   *)
(* order, in every interleaving of the threads main's assertions never     *)
(* fail; no Fibonacci number computed and no sum of the check overflows an *)
(* int; at the check and after it results[0] = 832040, results[1] =        *)
(* 1346269 and results[i] = results[i-1] + results[i-2] for i in 2..14.    *)
(* (fibonacci_int agrees with the recursion of fibonacci where that one    *)
(* can be run.)                                                            *)
(***************************************************************************)
C15_ReferenceScenario ==
    /\ pcM # "abort"
    /\ \A c \in Consumers :
          pcC[c] = "compute" => /\ be[c].number >= 1
                                /\ ~FibonacciUndefined(be[c].number)
    /\ \A i \in RefPositions :
          writes[i] >= 1 => results[i] >= 1 /\ results[i] <= INT_MAX
    /\ pcM \in {"check", "done"} =>
          /\ ~RefCheckUndefined
          /\ results[0] = 832040
          /\ results[1] = 1346269
          /\ \A i \in 2..(REF_DATA_LENGTH - 1) :
                /\ results[i - 1] <= INT_MAX - results[i - 2]
                /\ results[i] = results[i - 1] + results[i - 2]
          /\ \A n \in 1..20 : fibonacci_int(n) = fibonacci(n)

C15_Witness ==
    /\ pcM = "done"
    /\ Len(popped) = 15
    /\ results[0] = 832040
    /\ results[14] = 701408733

(***************************************************************************)
(* C16.  main reads the result slots only after every consumer thread and  *)
(* the producer thread have ended: from the moment main is at its check    *)
(* (after the joins of lines 222-225) all threads are done, and no step    *)
(* taken from then on changes a result slot, so every write of a slot      *)
(* precedes every read of the check.                                       *)
(***************************************************************************)
Validating == pcM \in {"check", "done", "abort"}

C16_Quiescent ==
    Validating => /\ ConsumersExited
                  /\ pcP = "done"
                  /\ joined = NUM_CONSUMERS

C16_NoWriteWhileValidating ==
    Validating => /\ results' = results
                  /\ writes' = writes
                  /\ pcC' = pcC
                  /\ pcP' = pcP

C16_ValidationAfterQuiescence ==
    /\ []C16_Quiescent
    /\ [][C16_NoWriteWhileValidating]_vars

C16_Witness ==
    /\ pcM = "done"
    /\ ConsumersExited
    /\ pcP = "done"
    /\ \A i \in Positions : writes[i] = 1 /\ results[i] = fibonacci(DATA_START + i)

(***************************************************************************)
(* C17.  The check of main accepts a run only if every result slot has     *)
(* been written.  A slot holds no value until a consumer stores into it    *)
(* (results is declared at line 203 without an initialiser) and holds one  *)
(* afterwards; main starts its check (lines 227-233) only when every slot  *)
(* has been stored into; and whenever the check has passed, every slot has *)
(* been stored into and no indeterminate value was read.                   *)
(***************************************************************************)
Unwritten(i) == writes[i] = 0

BlockedUnnotified(c) == pcC[c] = "wait" /\ c \in waiting

\* Some consumer is neither blocked un-notified nor terminated.
SomeConsumerAwake ==
    \E c \in Consumers : ~BlockedUnnotified(c) /\ pcC[c] # "done"

\* The producer has pushed (line 172) and has not yet issued the notify_one
\* of that push (line 177).
NotifyPending == pcP \in {"unlock", "notify_one"}

\* C18 as stated: in every reachable state in which the queue is non-empty,
\* at least one consumer is neither blocked un-notified on the condition
\* variable nor terminated.
C18_AwakeWheneverNonEmpty ==
    Len(data) > 0 => SomeConsumerAwake

\* C18, amended: in every reachable state in which the queue is non-empty,
\* either some consumer is neither blocked un-notified nor terminated, or
\* the producer is between its push_back and the notify_one that follows
\* it; and an entry in the queue is always unloaded eventually, so no entry
\* stays stuck in the queue.
C18_NonEmptyQueueServed ==
    Len(data) > 0 => (SomeConsumerAwake \/ NotifyPending)

C18_NoLostWakeup ==
    /\ []C18_NonEmptyQueueServed
    /\ \A n \in 1..DATA_LENGTH : (Len(popped) < n /\ Len(pushed) >= n) ~> (Len(popped) >= n)

\* The notify_one of a push has woken one of two blocked consumers while the
\* entry is still queued; the other one stays blocked.
C18_Witness ==
    /\ Len(data) > 0
    /\ pcP # "notify_one"
    /\ \E c1, c2 \in Consumers :
          /\ pcC[c1] = "wait" /\ c1 \notin waiting
          /\ BlockedUnnotified(c2)

(***************************************************************************)
(* C19.  A consumer that computes fibonacci or writes its result slot does *)
(* not hold buffer.mutex: it holds the entry it unloaded, and the mutex is *)
(* free or held by another thread.  So the consumers compute side by side  *)
(* while the producer holds the mutex at its push_back.                    *)
(***************************************************************************)
Computing(c) == pcC[c] \in {"compute", "write"}

C19_ComputeOutsideLock ==
    \A c \in Consumers :
        Computing(c) => /\ mutex # c
                        /\ ~ConsumerInCS(c)
                        /\ be[c] # NoEntry

\* Two consumers are at the call of fibonacci (line 147), each with its own
\* entry, while the producer holds the mutex at push_back (line 172).
C19_Witness ==
    /\ mutex = ProducerThread
    /\ pcP = "push"
    /\ \E c1, c2 \in Consumers :
          /\ c1 # c2
          /\ pcC[c1] = "compute"
          /\ pcC[c2] = "compute"
          /\ be[c1] # NoEntry
          /\ be[c2] # NoEntry
          /\ be[c1].position # be[c2].position

(***************************************************************************)
(* C20.  buffer.mutex and the logging mutex cannot deadlock.               *)
(***************************************************************************)
\* Thread t is at a lock of buffer.mutex (lines 118, 122, 170, 189), its
\* last sync_printf call has returned, and another thread holds the mutex.
WaitsForBuffer(t) ==
    /\ LogIdle(t)
    /\ mutex \notin {Free, t}
    /\ IF t = ProducerThread
         THEN pcP \in {"lock", "finish_lock"}
         ELSE pcC[t] \in {"lock", "relock"}

\* Thread t is at the lock_guard of sync_printf and another thread holds m.
WaitsForLog(t) == log_call[t] = "want" /\ log_mutex \notin {Free, t}

\* t waits for a mutex that u holds.
WaitsFor(t, u) ==
    \/ WaitsForBuffer(t) /\ mutex = u
    \/ WaitsForLog(t) /\ log_mutex = u

RECURSIVE ReachableBy(_, _)
ReachableBy(from, n) ==
    IF n = 0 THEN from
    ELSE ReachableBy(from \cup { u \in Threads : \E t \in from : WaitsFor(t, u) }, n - 1)

\* Some thread waits, directly or through a chain of waits, for itself.
WaitCycle ==
    \E t \in Threads :
        t \in ReachableBy({ u \in Threads : WaitsFor(t, u) }, Cardinality(Threads))

InLogCS(t) == log_call[t] = "in"

\* In every state: at most one thread is inside the logging critical
\* section and it is the holder of the logging mutex; a consumer that is in
\* a sync_printf call does not hold buffer.mutex; the holder of the logging
\* mutex waits for no mutex; no cycle of threads waiting on the two mutexes
\* exists; and until main has ended some thread can take a step.
C20_LogState ==
    /\ Cardinality({ t \in Threads : InLogCS(t) }) <= 1
    /\ \A t \in Threads : InLogCS(t) <=> log_mutex = t
    /\ \A c \in Consumers : ~LogIdle(c) => mutex # c
    /\ \A t \in Threads : InLogCS(t) => ~WaitsForBuffer(t) /\ ~WaitsForLog(t)
    /\ ~WaitCycle
    /\ pcM \notin {"done", "abort", "aborted"} => ENABLED LogNext

\* In every step: a thread that takes buffer.mutex is in no sync_printf call
\* and does not hold the logging mutex, so the order in which a thread holds
\* both is buffer.mutex first, logging mutex second.
C20_LockOrderStep ==
    \A t \in Threads :
        (mutex' = t /\ mutex # t) => (log_mutex # t /\ LogIdle(t))

C20_NoLockOrderDeadlock ==
    /\ []C20_LogState
    /\ [][C20_LockOrderStep]_vars

\* The producer is inside sync_printf at line 174, holding both mutexes,
\* while one consumer waits for the logging mutex and the other for
\* buffer.mutex.
C20_Witness ==
    /\ pcP = "unlock"
    /\ mutex = ProducerThread
    /\ log_mutex = ProducerThread
    /\ \E c1, c2 \in Consumers :
          /\ WaitsForLog(c1)
          /\ WaitsForBuffer(c2)

====
